---- MODULE Spec2Model ----
(***************************************************************************)
(* Model of the scraping utilities of Cannabis-Product-Recommendation:     *)
(*   src/scrape.py                  the href extractor                     *)
(*   src/scrape_coas_from_excel.py  the COA batch downloader               *)
(*                                                                         *)
(* Strings are sequences of tokens (short TLA+ strings); the string        *)
(* functions of the code (strip, lower, rstrip, startswith, urljoin, the   *)
(* regular expressions) are operators that compute on the tokens.          *)
(***************************************************************************)
EXTENDS Integers, Sequences, FiniteSets, TLC

VARIABLES
    \* ---- src/scrape.py, main ----
    x_pc,           \* "start" | "loop" | "done"
    x_g,            \* position in FILE_MAP (1-based) of the next group
    x_anchors,      \* the anchors of the file read last
    x_hrefs,        \* what extract_hrefs_from_file returned for it
    grand_total,    \* main's grand_total
    combined_seen,  \* main's combined_seen
    x_cross,        \* history: some href of a file was already in combined_seen
    x_rc,           \* main's return value, -1 while running
    \* ---- load_rows ----
    l_pc,           \* "input" | "returned" | "raised"
    l_df,           \* the data frame read from the input file
    l_args,         \* [url_col, type_col]
    l_out,          \* the list load_rows returned
    \* ---- find_coa_href ----
    c_pc,           \* "input" | "returned"
    c_page,         \* the anchors of the page, in document order
    c_ret,          \* the value returned (None or a URL)
    \* ---- the batch downloader: main, process_one ----
    phase,          \* "idle" | "running"
    index,          \* the index CSV: [exists, rows], rows in file order
    fs,             \* the PDF directory: file name -> content or Absent
    rows,           \* main's rows (after the cap)
    i,              \* 1-based position of the next row of the loop
    force,          \* args.force
    sleep_ok,       \* args.sleep >= 0 (time.sleep raises ValueError otherwise)
    runStart,       \* history: number of index rows when the loop started
    call,           \* history: what the last process_one got for the product page
    ev              \* history: the side effects of the last process_one, in order

x_vars == <<x_pc, x_g, x_anchors, x_hrefs, grand_total, combined_seen, x_cross, x_rc>>
l_vars == <<l_pc, l_df, l_args, l_out>>
c_vars == <<c_pc, c_page, c_ret>>
b_vars == <<phase, index, fs, rows, i, force, sleep_ok, runStart, call, ev>>
vars == <<x_vars, l_vars, c_vars, b_vars>>

(***************************************************************************)
(* Bounds of the model                                                     *)
(***************************************************************************)
MaxAnchors == 2      \* anchors in one snapshot file
MaxPageAnchors == 2  \* anchors on one product page
MaxTableRows == 2    \* rows of one input table
MaxIndexRows == 2    \* data rows the index may come to hold (a run that would add more is not started)

None == <<"None">>       \* Python's None, where a string may stand
NoAttr == <<"NoAttr">>   \* an attribute the tag does not have
Absent == [data |-> "Absent", len |-> 0]   \* a PDF file that does not exist

SeqsUpTo(S, n) == UNION {[1..k -> S] : k \in 0..n}

(***************************************************************************)
(* String helpers on token sequences                                       *)
(***************************************************************************)
\* one token, lower-cased (str.lower on the letters the model uses)
LowerTok(t) ==
    CASE t = "HTTP" -> "http"
      [] t = "A" -> "a"
      [] t = "COA" -> "coa"
      [] t = "CoA" -> "coa"
      [] t = "Coa" -> "coa"
      [] t = ".PDF" -> ".pdf"
      [] t = "Alleaves.com/" -> "alleaves.com/"
      [] t = "Type" -> "type"
      [] t = "URL" -> "url"
      [] t = "Flower" -> "flower"
      [] t = "Download" -> "download"
      [] OTHER -> t

lower(s) == [k \in 1..Len(s) |-> LowerTok(s[k])]

IsSpace(t) == t = " "

RECURSIVE lstrip_ws(_)
lstrip_ws(s) == IF s # <<>> /\ IsSpace(Head(s)) THEN lstrip_ws(Tail(s)) ELSE s

RECURSIVE rstrip_ws(_)
rstrip_ws(s) ==
    IF s # <<>> /\ IsSpace(s[Len(s)]) THEN rstrip_ws(SubSeq(s, 1, Len(s) - 1)) ELSE s

\* str.strip()
strip(s) == rstrip_ws(lstrip_ws(s))

\* str.rstrip(c)
RECURSIVE rstrip_char(_, _)
rstrip_char(s, c) ==
    IF s # <<>> /\ s[Len(s)] = c THEN rstrip_char(SubSeq(s, 1, Len(s) - 1), c) ELSE s

\* str.startswith("http"): case-sensitive, true of every token that begins
\* with the four letters
startswith_http(s) == s # <<>> /\ s[1] \in {"http", "https", "httpbin.org"}

\* order-preserving removal of repeats (the seen-set loops of the code)
RECURSIVE DedupeKeepFirst(_, _)
DedupeKeepFirst(s, seen) ==
    IF s = <<>> THEN <<>>
    ELSE IF Head(s) \in seen THEN DedupeKeepFirst(Tail(s), seen)
    ELSE <<Head(s)>> \o DedupeKeepFirst(Tail(s), seen \cup {Head(s)})

Range(s) == {s[k] : k \in 1..Len(s)}

(***************************************************************************)
(* urljoin(base, url) for the shapes of reference the model draws          *)
(***************************************************************************)
HasScheme(s) == s # <<>> /\ s[1] \in {"http", "https", "HTTP"}

\* the scheme and authority of an absolute URL: <<scheme, "://", host>>
Origin(base) == SubSeq(base, 1, 3)

\* the base with its last path segment removed (up to and with the last "/")
RECURSIVE DirOf(_)
DirOf(base) ==
    IF Len(base) <= 3 THEN base \o <<"/">>
    ELSE IF base[Len(base)] \in {"/", "/menu/"} THEN base
    ELSE DirOf(SubSeq(base, 1, Len(base) - 1))

urljoin(base, url) ==
    IF url = <<>> THEN base
    ELSE IF HasScheme(url) THEN url
    ELSE IF url[1] = "/" THEN Origin(base) \o url
    ELSE DirOf(base) \o url

(***************************************************************************)
(* src/scrape.py                                                           *)
(***************************************************************************)
\* DOMAIN in the source (a reserved word here)
DOMAIN_ == <<"https", "://", "cannabisrealmny.com", "/">>

FILE_MAP == <<"concentrates", "edibles", "flower", "hash", "pre-rolls", "vaporizers">>

CARD == "product-card-menu-link-body"

\* href values of the anchors of a snapshot file
SnapshotHrefs == {
    <<"/", "menu", "/", "a">>,
    <<"menu", "/", "a">>,
    <<"https", "://", "cannabisrealmny.com", "/", "menu", "/", "a">>,
    <<" ", "/", "menu", "/", "b">>,
    <<"/", "menu", "/", "b">>,
    <<" ">> }

SnapshotAnchors ==
    {[testid |-> CARD, href |-> h] : h \in SnapshotHrefs}
    \cup {[testid |-> CARD, href |-> NoAttr], [testid |-> "other", href |-> <<"/", "menu", "/", "a">>]}

\* soup.select('a[data-testid="product-card-menu-link-body"][href]')
select_cards(anchors) ==
    LET keep(a) == a.testid = CARD /\ a.href # NoAttr
        F[k \in 0..Len(anchors)] ==
            IF k = 0 THEN <<>>
            ELSE IF keep(anchors[k]) THEN Append(F[k - 1], anchors[k]) ELSE F[k - 1]
    IN F[Len(anchors)]

\* the loop of extract_hrefs_from_file: seen holds the stripped href, the list
\* gets the joined URL
RECURSIVE extract_loop(_, _)
extract_loop(anchors, seen) ==
    IF anchors = <<>> THEN <<>>
    ELSE LET href == strip(Head(anchors).href)
         IN IF href # <<>> /\ href \notin seen
            THEN <<urljoin(DOMAIN_, href)>> \o extract_loop(Tail(anchors), seen \cup {href})
            ELSE extract_loop(Tail(anchors), seen)

extract_hrefs_from_file(anchors) == extract_loop(select_cards(anchors), {})

XInit ==
    /\ x_pc = "start"
    /\ x_g = 1
    /\ x_anchors = <<>>
    /\ x_hrefs = <<>>
    /\ grand_total = 0
    /\ combined_seen = {}
    /\ x_cross = FALSE
    /\ x_rc = -1

\* main, lines 53-55: the directory does not exist
XDirMissing ==
    /\ UNCHANGED <<l_vars, c_vars, b_vars>>
    /\ x_pc = "start"
    /\ x_pc' = "done"
    /\ x_rc' = 2
    /\ UNCHANGED <<x_g, x_anchors, x_hrefs, grand_total, combined_seen, x_cross>>

\* main, lines 57-58
XDirFound ==
    /\ UNCHANGED <<l_vars, c_vars, b_vars>>
    /\ x_pc = "start"
    /\ x_pc' = "loop"
    /\ UNCHANGED <<x_g, x_anchors, x_hrefs, grand_total, combined_seen, x_cross, x_rc>>

\* main, lines 62-64: the group's file is missing
XMissingFile ==
    /\ UNCHANGED <<l_vars, c_vars, b_vars>>
    /\ x_pc = "loop"
    /\ x_g <= Len(FILE_MAP)
    /\ x_g' = x_g + 1
    /\ x_anchors' = <<>>
    /\ x_hrefs' = <<>>
    /\ UNCHANGED <<x_pc, grand_total, combined_seen, x_cross, x_rc>>

\* main, lines 66-77: one group's file is read
XProcessFile ==
    /\ UNCHANGED <<l_vars, c_vars, b_vars>>
    /\ x_pc = "loop"
    /\ x_g <= Len(FILE_MAP)
    /\ \E anchors \in SeqsUpTo(SnapshotAnchors, MaxAnchors) :
         LET hrefs == extract_hrefs_from_file(anchors)
         IN /\ x_anchors' = anchors
            /\ x_hrefs' = hrefs
            /\ grand_total' = grand_total + Len(hrefs)
            /\ x_cross' = (x_cross \/ Range(hrefs) \cap combined_seen # {})
            /\ combined_seen' = combined_seen \cup Range(hrefs)
    /\ x_g' = x_g + 1
    /\ UNCHANGED <<x_pc, x_rc>>

\* main, lines 79-83
XSummary ==
    /\ UNCHANGED <<l_vars, c_vars, b_vars>>
    /\ x_pc = "loop"
    /\ x_g > Len(FILE_MAP)
    /\ x_pc' = "done"
    /\ x_rc' = 0
    /\ UNCHANGED <<x_g, x_anchors, x_hrefs, grand_total, combined_seen, x_cross>>

XNext == XDirMissing \/ XDirFound \/ XMissingFile \/ XProcessFile \/ XSummary

(***************************************************************************)
(* src/scrape_coas_from_excel.py: load_rows                                *)
(***************************************************************************)
URL_HEADERS == <<"url", "href", "link", "product_url", "product url">>
TYPE_HEADERS == <<"type", "category", "group">>

\* _pick_col_by_header: the position of the column picked, 0 for None
pick_col_by_header(columns, preferred) ==
    LET name(c) == LowerTok(columns[c])
        hits == {k \in 1..Len(preferred) : \E c \in 1..Len(columns) : name(c) = preferred[k]}
    IN IF hits = {} THEN 0
       ELSE LET k == CHOOSE h \in hits : \A h2 \in hits : h <= h2
            IN CHOOSE c \in 1..Len(columns) :
                 /\ name(c) = preferred[k]
                 /\ \A c2 \in 1..Len(columns) : name(c2) = preferred[k] => c2 <= c

\* _series_by_pos: the position of the column, 0 for None
series_by_pos(columns, one_based) ==
    IF one_based <= 0 THEN 0
    ELSE IF one_based - 1 >= Len(columns) THEN 0
    ELSE one_based

\* the column load_rows reads the URLs from (0: ValueError), lines 195-200
url_column(df, args) ==
    LET url_hdr == pick_col_by_header(df.columns, URL_HEADERS)
    IN IF url_hdr # 0 THEN url_hdr ELSE series_by_pos(df.columns, args.url_col)

\* the column load_rows reads the types from (0: None), lines 196, 201
type_column(df, args) ==
    LET type_hdr == pick_col_by_header(df.columns, TYPE_HEADERS)
    IN IF type_hdr # 0 THEN type_hdr
       ELSE IF args.type_col > 0 THEN series_by_pos(df.columns, args.type_col) ELSE 0

\* the key of the dedupe loop, line 214
url_key(url) == lower(rstrip_char(url, "/"))

\* lines 204-209: the rows whose URL starts with "http"
RECURSIVE filter_rows(_, _, _)
filter_rows(data, uc, tc) ==
    IF data = <<>> THEN <<>>
    ELSE LET url == strip(Head(data)[uc])
             ptype == IF tc # 0 THEN lower(strip(Head(data)[tc])) ELSE <<>>
         IN IF ~startswith_http(url) THEN filter_rows(Tail(data), uc, tc)
            ELSE <<[ptype |-> ptype, url |-> url]>> \o filter_rows(Tail(data), uc, tc)

\* lines 212-218: dedupe by key, keep the first
RECURSIVE dedupe_rows(_, _)
dedupe_rows(out, seen) ==
    IF out = <<>> THEN <<>>
    ELSE LET key == url_key(Head(out).url)
         IN IF key \in seen THEN dedupe_rows(Tail(out), seen)
            ELSE <<Head(out)>> \o dedupe_rows(Tail(out), seen \cup {key})

\* load_rows on a data frame whose URL column exists
load_rows(df, args) ==
    dedupe_rows(filter_rows(df.data, url_column(df, args), type_column(df, args)), {})

\* ---- the input tables the model draws ----
UrlCells == {
    <<"http", "://", "x", "/", "a">>,
    <<"http", "://", "x", "/", "a", "/">>,
    <<"http", "://", "x", "/", "A">>,
    <<"HTTP", "://", "x", "/", "a">>,
    <<" ", "http", "://", "x", "/", "a">>,
    <<"https", "://", "x", "/", "b">>,
    <<"httpbin.org", "/", "a">>,
    <<"nan">> }

TypeCells == {<<"Flower">>, <<"hash", " ">>}

\* a header row, and where a row's URL and type cells go under it
Layouts == {
    [columns |-> <<"Type", "URL">>, row |-> [t \in TypeCells, u \in UrlCells |-> <<t, u>>]],
    [columns |-> <<"link", "group">>, row |-> [t \in TypeCells, u \in UrlCells |-> <<u, t>>]],
    [columns |-> <<"x", "y">>, row |-> [t \in TypeCells, u \in UrlCells |-> <<t, u>>]],
    [columns |-> <<"x">>, row |-> [t \in TypeCells, u \in UrlCells |-> <<u>>]] }

\* --url-col and --type-col
ColArgs == {[url_col |-> 2, type_col |-> 1], [url_col |-> 1, type_col |-> 0]}

Frames ==
    {[columns |-> lay.columns, data |-> [k \in 1..Len(cells) |-> lay.row[cells[k][1], cells[k][2]]]] :
        lay \in Layouts, cells \in SeqsUpTo(TypeCells \X UrlCells, MaxTableRows)}

LInit ==
    /\ l_pc = "input"
    /\ l_df \in Frames
    /\ l_args \in ColArgs
    /\ l_out = <<>>

\* load_rows, lines 199-200: no URL column
LRaise ==
    /\ UNCHANGED <<x_vars, c_vars, b_vars>>
    /\ l_pc = "input"
    /\ url_column(l_df, l_args) = 0
    /\ l_pc' = "raised"
    /\ UNCHANGED <<l_df, l_args, l_out>>

\* load_rows, lines 203-219
LReturn ==
    /\ UNCHANGED <<x_vars, c_vars, b_vars>>
    /\ l_pc = "input"
    /\ url_column(l_df, l_args) # 0
    /\ l_pc' = "returned"
    /\ l_out' = load_rows(l_df, l_args)
    /\ UNCHANGED <<l_df, l_args>>

LNext == LRaise \/ LReturn

(***************************************************************************)
(* src/scrape_coas_from_excel.py: find_coa_href                            *)
(*                                                                         *)
(* An anchor is [string, href]: string is tag.string (None when the tag    *)
(* has none), href the attribute (NoAttr when the tag has none).           *)
(***************************************************************************)
\* "coa" in s.lower(), for one token
TokHasCoa(t) == LowerTok(t) \in {"coa", "cocoa"}

\* the predicate soup.find is given at line 148
string_has_coa(str) == str # None /\ str # <<>> /\ \E k \in 1..Len(str) : TokHasCoa(str[k])

\* (?:$|\?) after the token at j
EndOrQuery(s, j) == j = Len(s) \/ s[j + 1] = "?"

\* ALLEAVES_PDF_PAT.search(href): alleaves\.com/.+\.pdf(?:$|\?), re.I
ALLEAVES_PDF_PAT(href) ==
    \E k, j \in 1..Len(href) :
        /\ LowerTok(href[k]) = "alleaves.com/"
        /\ j >= k + 2
        /\ LowerTok(href[j]) = ".pdf"
        /\ EndOrQuery(href, j)

\* COAISH_PDF_PAT.search(href): (?:\bcoa\b|certificate|analysis).+\.pdf(?:$|\?), re.I
COAISH_PDF_PAT(href) ==
    \E k, j \in 1..Len(href) :
        /\ LowerTok(href[k]) \in {"coa", "certificate", "analysis"}
        /\ j >= k + 2
        /\ LowerTok(href[j]) = ".pdf"
        /\ EndOrQuery(href, j)

\* href.lower().endswith(".pdf")
endswith_pdf(href) == href # <<>> /\ LowerTok(href[Len(href)]) = ".pdf"

\* href if href.startswith("http") else urljoin(base_url, href)
resolve_href(href, base_url) ==
    IF startswith_http(href) THEN href ELSE urljoin(base_url, href)

\* the first position of a sequence of flags that is TRUE, 0 if none: the
\* first match of a search in document order
FirstTrue(flags) ==
    IF \E k \in 1..Len(flags) : flags[k]
    THEN CHOOSE k \in 1..Len(flags) : flags[k] /\ \A m \in 1..(k - 1) : ~flags[m]
    ELSE 0

\* line 148: soup.find("a", string=...): the first anchor whose string has "coa"
find_coa_anchor(page) == LET P(a) == string_has_coa(a.string) IN FirstTrue([n \in 1..Len(page) |-> P(page[n])])

\* line 149: a and a.get("href")
tier1_taken(page) ==
    LET a == find_coa_anchor(page)
    IN a # 0 /\ page[a].href # NoAttr /\ page[a].href # <<>>

find_coa_href(page, base_url) ==
    LET a == find_coa_anchor(page)
        P2(t) == t.href # NoAttr /\ ALLEAVES_PDF_PAT(strip(t.href))
        t2 == FirstTrue([n \in 1..Len(page) |-> P2(page[n])])
        P3(t) == t.href # NoAttr /\ endswith_pdf(strip(t.href)) /\ COAISH_PDF_PAT(lower(strip(t.href)))
        t3 == FirstTrue([n \in 1..Len(page) |-> P3(page[n])])
    IN IF tier1_taken(page) THEN resolve_href(strip(page[a].href), base_url)
       ELSE IF t2 # 0 THEN resolve_href(strip(page[t2].href), base_url)
       ELSE IF t3 # 0 THEN resolve_href(strip(page[t3].href), base_url)
       ELSE None

\* ---- the pages the model draws ----
H_PLAIN == <<"https", "://", "cdn.x", "/", "f1", ".pdf">>
H_REL == <<"/", "files", "/", "f2">>
H_ALLEAVES == <<"https", "://", "cdn.", "Alleaves.com/", "f3", ".pdf">>
H_ALLEAVES_Q == <<"https", "://", "cdn.", "alleaves.com/", "f3", ".pdf", "?", "v1">>
H_COAISH == <<" ", "docs", "/", "coa", "-", "f4", ".PDF">>
H_COA_ONLY == <<"/", "coa", ".pdf">>

PageAnchors == {
    [string |-> <<"Download", " ", "COA">>, href |-> H_PLAIN],
    [string |-> <<"CoA", " ">>, href |-> NoAttr],
    [string |-> <<"coa">>, href |-> <<>>],
    [string |-> <<"COA">>, href |-> H_REL],
    [string |-> <<"Buy">>, href |-> H_ALLEAVES],
    [string |-> <<"Buy">>, href |-> H_ALLEAVES_Q],
    [string |-> None, href |-> H_COAISH],
    [string |-> <<"Buy">>, href |-> H_COA_ONLY],
    [string |-> <<"Buy">>, href |-> H_REL] }

\* the product page the anchors are on
BASE_URL == <<"https", "://", "shop", "/menu/", "acme", "/", "acme", "-", "blue", "-", "3.5g">>

CInit ==
    /\ c_pc = "input"
    /\ c_page \in SeqsUpTo(PageAnchors, MaxPageAnchors)
    /\ c_ret = None

\* find_coa_href returns through tier 1, lines 148-151
CTier1 ==
    /\ UNCHANGED <<x_vars, l_vars, b_vars>>
    /\ c_pc = "input"
    /\ tier1_taken(c_page)
    /\ c_pc' = "returned"
    /\ c_ret' = find_coa_href(c_page, BASE_URL)
    /\ UNCHANGED c_page

\* find_coa_href goes on to tiers 2 and 3, lines 153-165
CFallback ==
    /\ UNCHANGED <<x_vars, l_vars, b_vars>>
    /\ c_pc = "input"
    /\ ~tier1_taken(c_page)
    /\ c_pc' = "returned"
    /\ c_ret' = find_coa_href(c_page, BASE_URL)
    /\ UNCHANGED c_page

CNext == CTier1 \/ CFallback

(***************************************************************************)
(* src/scrape_coas_from_excel.py: parsing the product URL, the file name   *)
(***************************************************************************)
\* the tokens after the first "/menu/" (the whole URL when there is none)
RECURSIVE after_menu(_, _)
after_menu(s, whole) ==
    IF s = <<>> THEN whole
    ELSE IF Head(s) = "/menu/" THEN Tail(s) ELSE after_menu(Tail(s), whole)

\* str.split("/"): the parts between the "/" tokens
RECURSIVE split_slash(_, _)
split_slash(s, cur) ==
    IF s = <<>> THEN <<cur>>
    ELSE IF Head(s) = "/" THEN <<cur>> \o split_slash(Tail(s), <<>>)
    ELSE split_slash(Tail(s), Append(cur, Head(s)))

\* tokens the weight pattern (\d+(?:\.\d+)?(?:g|mg|oz))$ matches
WeightToks == {"3.5g", "1g", "100mg"}

IsPrefix(p, s) == Len(p) <= Len(s) /\ SubSeq(s, 1, Len(p)) = p

RECURSIVE lstrip_char(_, _)
lstrip_char(s, c) == IF s # <<>> /\ Head(s) = c THEN lstrip_char(Tail(s), c) ELSE s

parse_company_product_weight_from_url(product_url) ==
    LET parts == split_slash(after_menu(product_url, product_url), <<>>)
        company == strip(parts[1])
        slug == IF Len(parts) > 1 THEN strip(parts[2]) ELSE <<>>
        weight == IF slug # <<>> /\ slug[Len(slug)] \in WeightToks THEN <<slug[Len(slug)]>> ELSE <<>>
        n1 == IF company # <<>> /\ IsPrefix(company, slug)
              THEN lstrip_char(SubSeq(slug, Len(company) + 1, Len(slug)), "-")
              ELSE slug
        n2 == IF weight # <<>>
              THEN rstrip_char(SubSeq(n1, 1, Len(n1) - Len(weight)), "-")
              ELSE n1
    IN [company |-> company, product_name |-> n2, weight |-> weight]

\* SAFE_FN = [^A-Za-z0-9._-]+ : the tokens outside the class
Unsafe(t) == t \in {" ", "%", "/", ":", "://"}

\* SAFE_FN.sub("_", base): every run of unsafe tokens becomes one "_"
RECURSIVE safe_sub(_, _)
safe_sub(s, inRun) ==
    IF s = <<>> THEN <<>>
    ELSE IF Unsafe(Head(s))
         THEN (IF inRun THEN <<>> ELSE <<"_">>) \o safe_sub(Tail(s), TRUE)
         ELSE <<Head(s)>> \o safe_sub(Tail(s), FALSE)

strip_char(s, c) == rstrip_char(lstrip_char(s, c), c)

\* "_".join(p for p in parts if p)
RECURSIVE join_nonempty(_)
join_nonempty(parts) ==
    IF parts = <<>> THEN <<>>
    ELSE IF Head(parts) = <<>> THEN join_nonempty(Tail(parts))
    ELSE LET rest == join_nonempty(Tail(parts))
         IN IF rest = <<>> THEN Head(parts) ELSE Head(parts) \o <<"_">> \o rest

\* base[:140]
FN_CAP == 140

safe_filename(company, pname, weight) ==
    LET base0 == strip_char(join_nonempty(<<company, pname, weight>>), "_")
        base1 == strip_char(safe_sub(base0, FALSE), "_")
        base == IF base1 = <<>> THEN <<"coa">> ELSE base1
    IN SubSeq(base, 1, IF Len(base) < FN_CAP THEN Len(base) ELSE FN_CAP) \o <<".pdf">>

pdf_name(url) ==
    LET p == parse_company_product_weight_from_url(url)
    IN safe_filename(p.company, p.product_name, p.weight)

(***************************************************************************)
(* parse_effects                                                           *)
(*                                                                         *)
(* A page's h2 list: [text, labels], labels the texts of the anchors of    *)
(* the heading's section.                                                  *)
(***************************************************************************)
EffectNames == {"creative", "energized", "happy", "calm", "sleepy"}

Capitalize(t) ==
    CASE t = "happy" -> "Happy"
      [] t = "calm" -> "Calm"
      [] t = "sleepy" -> "Sleepy"
      [] t = "creative" -> "Creative"
      [] t = "energized" -> "Energized"
      [] OTHER -> t

LowerEffect(t) ==
    CASE t = "Happy" -> "happy"
      [] t = "HAPPY" -> "happy"
      [] t = "Calm" -> "calm"
      [] t = "Effects" -> "effects"
      [] OTHER -> t

NoLabel == "None"

\* clean_effect_token: the first effect name in the text, capitalized, or None
clean_effect_token(txt) ==
    LET P(t) == LowerEffect(t) \in EffectNames
        k == FirstTrue([n \in 1..Len(txt) |-> P(txt[n])])
    IN IF k = 0 THEN NoLabel ELSE Capitalize(LowerEffect(txt[k]))

parse_effects(h2s) ==
    LET P(h) == \E k \in 1..Len(h.text) : LowerEffect(h.text[k]) = "effects"
        h == FirstTrue([n \in 1..Len(h2s) |-> P(h2s[n])])
        labels == IF h = 0 THEN <<>>
                  ELSE [k \in 1..Len(h2s[h].labels) |-> clean_effect_token(h2s[h].labels[k])]
    IN DedupeKeepFirst(labels, {NoLabel})

\* json.dumps of a list of labels
json_dumps(l) == <<"[">> \o l \o <<"]">>

(***************************************************************************)
(* src/scrape_coas_from_excel.py: the index, http_get, process_one         *)
(***************************************************************************)
\* writer.writeheader(): the row of field names
HEADER ==
    [type |-> <<"type">>, product_href |-> <<"product_href">>, coa_url |-> <<"coa_url">>,
     company |-> <<"company">>, product_name |-> <<"product_name">>, weight |-> <<"weight">>,
     effects |-> <<"effects">>, local_path |-> <<"local_path">>, sha256 |-> <<"sha256">>,
     size_kb |-> <<"size_kb">>, status |-> "status", error |-> "error"]

\* a variant of ensure_dirs that opens the index for writing on every run
ensure_dirs_rewrites(idx) == [exists |-> TRUE, rows |-> <<HEADER>>]

\* ensure_dirs, lines 51-61: the header is written when the index does not exist
ensure_dirs(idx) == IF ~idx.exists THEN [exists |-> TRUE, rows |-> <<HEADER>>] ELSE idx

\* append_index_row, lines 64-73: open in "a" mode, write one row
append_index_row(idx, row) == [exists |-> TRUE, rows |-> Append(idx.rows, row)]

\* the rec of process_one, lines 223-236
new_rec(url, ptype) ==
    [type |-> ptype, product_href |-> url, coa_url |-> <<>>,
     company |-> <<>>, product_name |-> <<>>, weight |-> <<>>,
     effects |-> <<"[", "]">>, local_path |-> <<>>, sha256 |-> <<>>,
     size_kb |-> <<>>, status |-> "", error |-> ""]

\* sha256_file: the digest of a file's bytes
sha256_file(blob) == <<"sha256", blob.data>>

\* bytes per KB, line 271
KB == 1024

\* str(st_size // 1024)
size_kb_of(blob) == <<ToString(blob.len \div KB)>>

\* what the network answers a GET with
NetFail == [fail |-> TRUE]

\* ("pdf" not in ctype and "octet-stream" not in ctype), line 91
ctype_pdf_like(ctype) == ctype \in {"application/pdf", "application/octet-stream"}

\* http_get, lines 82-94: [ok, body] or [ok, err]
http_get(net, url, expect_pdf) ==
    IF net = NetFail THEN [ok |-> FALSE, err |-> "HTTPError"]
    ELSE IF expect_pdf /\ ~ctype_pdf_like(net.ctype) /\ ~endswith_pdf(url)
         THEN [ok |-> FALSE, err |-> "Expected PDF-like content"]
    ELSE [ok |-> TRUE, body |-> net.body]

\* the side effects process_one logs: the requests with what came of them
\* ("ok", "fail": no response or an error status, "not_pdf": line 93), the
\* write of the PDF, the sleep, the append to the index
EvGet(url, res) == [op |-> "GET", arg |-> url, res |-> res]
EvWrite(name) == [op |-> "write", arg |-> name, res |-> "ok"]
EvSleep == [op |-> "sleep", arg |-> <<>>, res |-> "ok"]
EvAppend(status) == [op |-> "append", arg |-> <<status>>, res |-> "ok"]

get_result(r) == IF r.ok THEN "ok" ELSE IF r.err = "HTTPError" THEN "fail" ELSE "not_pdf"

\* a variant of the except branch that leaves the status as it was
on_exception_keeps_status(rec, e) == [rec EXCEPT !.error = e]

\* lines 276-277
on_exception(rec, e) == [rec EXCEPT !.status = "error", !.error = e]

\* a variant of the except branch that appends nothing
except_branch_silent(idx, rec, e) == idx

\* the except branch, lines 275-279
except_branch(idx, rec, e) == append_index_row(idx, on_exception(rec, e))

\* lines 262-267: the download branch; [raised, err, fs, ev]
download(fsv, name, coa_url, sleepok, pdfNet, wr) ==
    LET pdf == http_get(pdfNet, coa_url, TRUE)
        got == <<EvGet(coa_url, get_result(pdf))>>
    IN IF ~pdf.ok THEN [raised |-> TRUE, err |-> pdf.err, fs |-> fsv, ev |-> got]
       ELSE IF wr = "open_fail"
            THEN [raised |-> TRUE, err |-> "OSError", fs |-> fsv, ev |-> got]
       ELSE IF wr = "write_fail"
            THEN [raised |-> TRUE, err |-> "OSError",
                  fs |-> [fsv EXCEPT ![name] = [data |-> "empty", len |-> 0]], ev |-> got]
       ELSE LET fs2 == [fsv EXCEPT ![name] = pdf.body]
                ev2 == Append(got, EvWrite(name))
            IN IF sleepok
               THEN [raised |-> FALSE, err |-> "", fs |-> fs2, ev |-> Append(ev2, EvSleep)]
               ELSE [raised |-> TRUE, err |-> "sleep length must be non-negative",
                     fs |-> fs2, ev |-> ev2]

\* a variant of line 260 that never keeps the existing file
skip_download_never(fsv, name, forcev) == FALSE

\* line 260: the existing file is kept
skip_download(fsv, name, forcev) == fsv[name] # Absent /\ ~forcev

\* lines 269-272
ok_rec(rec, fsv, name) ==
    [rec EXCEPT !.local_path = name,
                !.sha256 = IF fsv[name] # Absent THEN sha256_file(fsv[name]) ELSE <<>>,
                !.size_kb = IF fsv[name] # Absent THEN size_kb_of(fsv[name]) ELSE <<>>,
                !.status = "ok"]

\* a variant of line 249 that takes a missing link for a failure
no_coa_rec_as_error(rec) == [rec EXCEPT !.status = "error", !.error = "COA not found"]

\* line 249
no_coa_rec(rec) == [rec EXCEPT !.status = "no_coa"]

\* process_one, lines 222-279: [index, fs, ev] as the call leaves them
process_one(url, ptype, idx, fsv, forcev, sleepok, pageNet, pdfNet, wr) ==
    LET rec0 == new_rec(url, ptype)
        page == http_get(pageNet, url, FALSE)
        ev0 == <<EvGet(url, get_result(page))>>
    IN IF ~page.ok
       THEN [index |-> except_branch(idx, rec0, page.err), fs |-> fsv,
             ev |-> Append(ev0, EvAppend("error"))]
       ELSE
         LET p == parse_company_product_weight_from_url(url)
             rec1 == [rec0 EXCEPT !.company = p.company, !.product_name = p.product_name,
                                  !.weight = p.weight,
                                  !.effects = json_dumps(parse_effects(page.body.h2))]
             coa_url == find_coa_href(page.body.anchors, url)
         IN IF coa_url = None
            THEN [index |-> append_index_row(idx, no_coa_rec(rec1)), fs |-> fsv,
                  ev |-> Append(ev0, EvAppend("no_coa"))]
            ELSE
              LET rec2 == [rec1 EXCEPT !.coa_url = coa_url]
                  name == safe_filename(p.company, p.product_name, p.weight)
              IN IF skip_download(fsv, name, forcev)
                 THEN [index |-> append_index_row(idx, ok_rec(rec2, fsv, name)), fs |-> fsv,
                       ev |-> Append(ev0, EvAppend("ok"))]
                 ELSE
                   LET d == download(fsv, name, coa_url, sleepok, pdfNet, wr)
                   IN IF d.raised
                      THEN [index |-> except_branch(idx, rec2, d.err), fs |-> d.fs,
                            ev |-> Append(ev0 \o d.ev, EvAppend("error"))]
                      ELSE [index |-> append_index_row(idx, ok_rec(rec2, d.fs, name)),
                            fs |-> d.fs, ev |-> Append(ev0 \o d.ev, EvAppend("ok"))]

(***************************************************************************)
(* The runs of the batch downloader: main                                  *)
(***************************************************************************)
U1 == BASE_URL
U2 == <<"http", "://", "shop", "/menu/", "acme", "/", "acme", "-", "blue", "-", "3.5g">>
ProductUrls == {U1, U2}

PdfNames == {pdf_name(u) : u \in ProductUrls}

\* the rows of the spreadsheets of the runs
BatchCells == {<<<<"Flower">>, U1>>, <<<<"hash">>, U2>>}

BatchFrames ==
    {[columns |-> <<"Type", "URL">>, data |-> d] : d \in SeqsUpTo(BatchCells, MaxTableRows)}

\* a spreadsheet of one column without a header the code knows
BadFrame == [columns |-> <<"x">>, data |-> <<>>]

\* --url-col, --type-col as parse_args defaults them
DefaultCols == [url_col |-> 2, type_col |-> 1]

\* the product pages the network serves
Pages == {
    [anchors |-> <<[string |-> <<"Buy">>, href |-> H_REL]>>, h2 |-> <<>>],
    [anchors |-> <<[string |-> <<"Buy">>, href |-> H_ALLEAVES_Q]>>,
     h2 |-> <<[text |-> <<"Effects">>, labels |-> <<<<"EFFECT_", "HAPPY">>, <<"Happy">>, <<"Calm">>>>]>>] }

PageNets == {NetFail} \cup {[ctype |-> "text/html", body |-> pg] : pg \in Pages}

Blobs == {[data |-> "p1", len |-> 700], [data |-> "p2", len |-> 2048]}

PdfNets ==
    {NetFail, [ctype |-> "text/html", body |-> [data |-> "p1", len |-> 700]]}
    \cup {[ctype |-> "application/pdf", body |-> b] : b \in Blobs}

WriteOutcomes == {"ok", "open_fail", "write_fail"}

Unused == [unused |-> TRUE]

NoCall == Unused

\* rows[: args.max] when args.max and total > args.max, lines 287-289
cap_rows(rs, max) == IF max # 0 /\ Len(rs) > max THEN SubSeq(rs, 1, max) ELSE rs

IndexRows(idx) == IF ~idx.exists THEN 0 ELSE Len(idx.rows) - 1

BInit ==
    /\ phase = "idle"
    /\ index = [exists |-> FALSE, rows |-> <<>>]
    /\ fs = [n \in PdfNames |-> Absent]
    /\ rows = <<>>
    /\ i = 1
    /\ force = FALSE
    /\ sleep_ok = TRUE
    /\ runStart = 0
    /\ call = NoCall
    /\ ev = <<>>

\* main, lines 283-290: ensure_dirs, load_rows, the cap
StartRun ==
    /\ UNCHANGED <<x_vars, l_vars, c_vars>>
    /\ phase = "idle"
    /\ \E df \in BatchFrames, max \in {0, 1}, f \in BOOLEAN, s \in BOOLEAN :
         LET rs == cap_rows(load_rows(df, DefaultCols), max)
         IN /\ IndexRows(index) + Len(rs) <= MaxIndexRows
            /\ rows' = rs
            /\ force' = f
            /\ sleep_ok' = s
    /\ index' = ensure_dirs(index)
    /\ runStart' = IndexRows(ensure_dirs(index))
    /\ phase' = "running"
    /\ i' = 1
    /\ call' = NoCall
    /\ ev' = <<>>
    /\ UNCHANGED fs

\* main, lines 284-286: load_rows raises ValueError after ensure_dirs
StartRunNoUrlColumn ==
    /\ UNCHANGED <<x_vars, l_vars, c_vars>>
    /\ phase = "idle"
    /\ url_column(BadFrame, DefaultCols) = 0
    /\ index' = ensure_dirs(index)
    /\ UNCHANGED <<phase, fs, rows, i, force, sleep_ok, runStart, call, ev>>

\* main, lines 292-294: process_one on the next row
ProcessOne ==
    /\ UNCHANGED <<x_vars, l_vars, c_vars>>
    /\ phase = "running"
    /\ i <= Len(rows)
    /\ LET url == rows[i].url
           name == pdf_name(url)
       IN \E pageNet \in PageNets :
            LET fetches == /\ pageNet # NetFail
                           /\ find_coa_href(pageNet.body.anchors, url) # None
                           /\ ~skip_download(fs, name, force)
            IN \E pdfNet \in IF fetches THEN PdfNets ELSE {Unused} :
               \E wr \in IF fetches /\ http_get(pdfNet, find_coa_href(pageNet.body.anchors, url), TRUE).ok
                         THEN WriteOutcomes ELSE {"unused"} :
                 \E r \in {process_one(url, rows[i].ptype, index, fs, force, sleep_ok,
                                         pageNet, pdfNet, wr)} :
                    /\ index' = r.index
                    /\ fs' = r.fs
                    /\ ev' = r.ev
                    /\ call' = pageNet
    /\ i' = i + 1
    /\ UNCHANGED <<phase, rows, force, sleep_ok, runStart>>

\* main returns after the loop: the process ends, its arguments and locals go
FinishRun ==
    /\ UNCHANGED <<x_vars, l_vars, c_vars>>
    /\ phase = "running"
    /\ i > Len(rows)
    /\ phase' = "idle"
    /\ rows' = <<>>
    /\ i' = 1
    /\ force' = FALSE
    /\ sleep_ok' = TRUE
    /\ runStart' = 0
    /\ call' = NoCall
    /\ ev' = <<>>
    /\ UNCHANGED <<index, fs>>

BNext == StartRun \/ StartRunNoUrlColumn \/ ProcessOne \/ FinishRun

(***************************************************************************)
(* Specifications                                                          *)
(***************************************************************************)
\* the programs that a specification does not run stay as constructed
XIdle == XInit
LIdle == l_pc = "input" /\ l_df = BadFrame /\ l_args = DefaultCols /\ l_out = <<>>
CIdle == c_pc = "input" /\ c_page = <<>> /\ c_ret = None

\* the batch downloader
Init == BInit /\ XIdle /\ LIdle /\ CIdle
Next == BNext
Spec == Init /\ [][Next]_vars

\* the loop of main runs to its end: nothing blocks and nothing cancels it
FairSpec == Spec /\ WF_vars(ProcessOne) /\ WF_vars(FinishRun)

\* the href extractor
InitExtract == XInit /\ LIdle /\ CIdle /\ BInit
NextExtract == XNext
SpecExtract == InitExtract /\ [][NextExtract]_vars

\* load_rows on the tables drawn
InitLoad == LInit /\ XIdle /\ CIdle /\ BInit
NextLoad == LNext
SpecLoad == InitLoad /\ [][NextLoad]_vars

\* find_coa_href on the pages drawn
InitCoa == CInit /\ XIdle /\ LIdle /\ BInit
NextCoa == CNext
SpecCoa == InitCoa /\ [][NextCoa]_vars

(***************************************************************************)
(* Properties: the href extractor (SpecExtract)                            *)
(***************************************************************************)
NoRepeat(q) == \A j, k \in 1..Len(q) : j # k => q[j] # q[k]

\* the URLs of a file's product anchors, in file order, repeats kept
RECURSIVE UrlsInFile(_)
UrlsInFile(cards) ==
    IF cards = <<>> THEN <<>>
    ELSE LET href == strip(Head(cards).href)
         IN (IF href = <<>> THEN <<>> ELSE <<urljoin(DOMAIN_, href)>>) \o UrlsInFile(Tail(cards))

\* C4: the list extract_hrefs_from_file returns for a snapshot file holds no
\* URL twice, and holds the file's URLs in the order in which each was first
\* seen in the file.
C4_UniqueInFirstSeenOrder ==
    /\ NoRepeat(x_hrefs)
    /\ x_hrefs = DedupeKeepFirst(UrlsInFile(select_cards(x_anchors)), {})

\* a file's list holds one URL twice: two hrefs that resolve to the same URL
C4_SameUrlTwice ==
    /\ ~NoRepeat(x_hrefs)
    /\ NoRepeat([k \in 1..Len(select_cards(x_anchors)) |-> strip(select_cards(x_anchors)[k].href)])

\* C5: when main has printed its summary, the combined-unique count is at
\* most the grand total, and the two are equal exactly when no href was found
\* in more than one category.
C5_CombinedAtMostTotal ==
    (x_pc = "done" /\ x_rc = 0) =>
        /\ Cardinality(combined_seen) <= grand_total
        /\ (Cardinality(combined_seen) = grand_total) <=> ~x_cross

\* the summary counts fewer unique hrefs than the total, no href in two categories
C5_FewerWithoutCrossRepeat ==
    /\ x_pc = "done"
    /\ x_rc = 0
    /\ ~x_cross
    /\ Cardinality(combined_seen) < grand_total

(***************************************************************************)
(* Properties: load_rows (SpecLoad)                                        *)
(***************************************************************************)
\* the URL value and the type label of input row j, as load_rows reads them
UrlValue(j) == strip(l_df.data[j][url_column(l_df, l_args)])
TypeLabel(j) ==
    IF type_column(l_df, l_args) = 0 THEN <<>>
    ELSE lower(strip(l_df.data[j][type_column(l_df, l_args)]))

\* a URL that starts with an HTTP scheme: http:// or https://
HasHttpScheme(u) == Len(u) >= 2 /\ LowerTok(u[1]) \in {"http", "https"} /\ u[2] = "://"

\* the normalized URL: trailing slash stripped, lower-cased
Normalized(u) == lower(rstrip_char(u, "/"))

\* the first input row that has the normalized URL n (0 if none)
FirstRowWith(n) ==
    LET hits == {j \in 1..Len(l_df.data) : Normalized(UrlValue(j)) = n}
    IN IF hits = {} THEN 0 ELSE CHOOSE j \in hits : \A j2 \in hits : j <= j2

\* C6: the list load_rows returns has (1) no row whose URL does not start
\* with an HTTP scheme, (2) no two rows with the same normalized URL, and (3)
\* each row is the first input row of its normalized URL, with its type
\* label, the kept rows in input order.
C6_LoadRowsFilteredDeduped ==
    l_pc = "returned" =>
        /\ \A k \in 1..Len(l_out) : HasHttpScheme(l_out[k].url)
        /\ \A j, k \in 1..Len(l_out) :
             j # k => Normalized(l_out[j].url) # Normalized(l_out[k].url)
        /\ \A k \in 1..Len(l_out) :
             LET j == FirstRowWith(Normalized(l_out[k].url))
             IN /\ j # 0
                /\ l_out[k] = [ptype |-> TypeLabel(j), url |-> UrlValue(j)]
        /\ \A j, k \in 1..Len(l_out) :
             j < k => FirstRowWith(Normalized(l_out[j].url)) < FirstRowWith(Normalized(l_out[k].url))

\* a kept row has no HTTP scheme, or a row with a scheme was dropped for its case
C6_KeptWithoutScheme ==
    /\ l_pc = "returned"
    /\ \/ \E k \in 1..Len(l_out) : ~HasHttpScheme(l_out[k].url)
       \/ \E k \in 1..Len(l_out) :
            UrlValue(FirstRowWith(Normalized(l_out[k].url))) # l_out[k].url

\* what load_rows does keep to: the same three parts with "starts with the
\* letters http" for the scheme, and the first row among the rows that do
LoadRowsKeepsFirstHttpRow ==
    l_pc = "returned" =>
        LET first(n) ==
                LET hits == {j \in 1..Len(l_df.data) :
                               startswith_http(UrlValue(j)) /\ Normalized(UrlValue(j)) = n}
                IN IF hits = {} THEN 0 ELSE CHOOSE j \in hits : \A j2 \in hits : j <= j2
        IN /\ \A k \in 1..Len(l_out) : startswith_http(l_out[k].url)
           /\ \A j, k \in 1..Len(l_out) :
                j # k => Normalized(l_out[j].url) # Normalized(l_out[k].url)
           /\ \A k \in 1..Len(l_out) :
                /\ first(Normalized(l_out[k].url)) # 0
                /\ l_out[k] = [ptype |-> TypeLabel(first(Normalized(l_out[k].url))),
                               url |-> UrlValue(first(Normalized(l_out[k].url)))]
           /\ \A j, k \in 1..Len(l_out) :
                j < k => first(Normalized(l_out[j].url)) < first(Normalized(l_out[k].url))
           /\ \A j \in 1..Len(l_df.data) :
                startswith_http(UrlValue(j)) =>
                    \E k \in 1..Len(l_out) : Normalized(l_out[k].url) = Normalized(UrlValue(j))

(***************************************************************************)
(* Properties: find_coa_href (SpecCoa)                                     *)
(***************************************************************************)
HasHref(a) == a.href # NoAttr /\ strip(a.href) # <<>>

\* tier (a): an anchor with an href whose visible text contains "coa" in any case
TierA(a) == HasHref(a) /\ a.string # None /\ \E k \in 1..Len(a.string) : TokHasCoa(a.string[k])
\* tier (b): an anchor whose href matches the vendor PDF pattern
TierB(a) == HasHref(a) /\ ALLEAVES_PDF_PAT(strip(a.href))
\* tier (c): an anchor whose href ends in .pdf and has a COA-like keyword
TierC(a) == HasHref(a) /\ endswith_pdf(strip(a.href)) /\ COAISH_PDF_PAT(lower(strip(a.href)))

\* the links of the anchors of a page at the positions at
LinksAt(page, at) == {resolve_href(strip(page[k].href), BASE_URL) : k \in at}
LinksA(page) == LinksAt(page, {m \in 1..Len(page) : TierA(page[m])})
LinksB(page) == LinksAt(page, {m \in 1..Len(page) : TierB(page[m])})
LinksC(page) == LinksAt(page, {m \in 1..Len(page) : TierC(page[m])})

\* C7: the link find_coa_href returns is the href of a tier (a) anchor when
\* the page has one, wherever it stands; of a tier (b) anchor only when there
\* is no tier (a) anchor; of a tier (c) anchor only when there is neither.
C7_FirstTierWins ==
    c_pc = "returned" =>
        IF LinksA(c_page) # {} THEN c_ret \in LinksA(c_page)
        ELSE IF LinksB(c_page) # {} THEN c_ret \in LinksB(c_page)
        ELSE IF LinksC(c_page) # {} THEN c_ret \in LinksC(c_page)
        ELSE c_ret = None

\* the page has a tier (a) anchor and no link is returned
C7_TierAMissed ==
    /\ c_pc = "returned"
    /\ LinksA(c_page) # {}
    /\ c_ret = None

\* what find_coa_href does keep to: the tiers in order, tier (a) being the
\* first anchor of the page whose text contains "coa", if that one has an href
FirstCoaAnchorDecidesTierA ==
    c_pc = "returned" =>
        LET P(a) == a.string # None /\ \E k \in 1..Len(a.string) : TokHasCoa(a.string[k])
            f == FirstTrue([n \in 1..Len(c_page) |-> P(c_page[n])])
        IN IF f # 0 /\ HasHref(c_page[f])
           THEN c_ret = resolve_href(strip(c_page[f].href), BASE_URL)
           ELSE IF LinksB(c_page) # {} THEN c_ret \in LinksB(c_page)
           ELSE IF LinksC(c_page) # {} THEN c_ret \in LinksC(c_page)
           ELSE c_ret = None

(***************************************************************************)
(* Properties: the batch downloader (Spec, FairSpec)                       *)
(***************************************************************************)
\* the records the run has appended to the index so far
RunRecs == SubSeq(index.rows, runStart + 2, Len(index.rows))

\* the record the last call of process_one appended
LastRec == index.rows[Len(index.rows)]

\* a call of process_one has returned in this run
Called == phase = "running" /\ i > 1

\* the step of main that calls process_one on row i
IsCall == phase = "running" /\ i' = i + 1

Ops(e) == [k \in 1..Len(e) |-> e[k].op]

\* C1: in a run of main, the records appended to the index are one per row
\* processed, the k-th of them with the URL of the k-th row; so when the run
\* finishes there are as many of them as rows.
C1_OneRecordPerRow ==
    phase = "running" =>
        /\ Len(RunRecs) = i - 1
        /\ \A k \in 1..(i - 1) : RunRecs[k].product_href = rows[k].url

\* a run of two rows has finished, the rows with different outcomes
C1_TwoRowsDone ==
    /\ phase = "running"
    /\ Len(rows) = 2
    /\ i > Len(rows)
    /\ RunRecs[1].status = "ok"
    /\ RunRecs[2].status = "no_coa"

TerminalStatuses == {"ok", "no_coa", "error"}

\* a request of the last call failed: no page, no PDF, or a response that is not PDF-like
FetchFailed == \E k \in 1..Len(ev) : ev[k].op = "GET" /\ ev[k].res # "ok"

\* C2: a failed fetch is recorded with status error; every record of the run
\* has a terminal status; the rows are taken one at a time, in list order and
\* none twice; and the run, whatever fails, gets to the end of its list.
C2_FailuresRecordedRunContinues ==
    /\ [](Called /\ FetchFailed => LastRec.status = "error" /\ LastRec.error # "")
    /\ [](phase = "running" =>
            /\ \A k \in 1..Len(RunRecs) : RunRecs[k].status \in TerminalStatuses
            /\ Len(RunRecs) = i - 1
            /\ \A k \in 1..(i - 1) : RunRecs[k].product_href = rows[k].url)
    /\ [][phase = "running" /\ phase' = "running" =>
            i' = i + 1 /\ rows' = rows /\ Len(index'.rows) = Len(index.rows) + 1]_vars
    /\ (phase = "running") ~> (phase = "running" /\ i > Len(rows) /\ Len(RunRecs) = Len(rows))

\* the PDF response of a row was not PDF-like, and the run has a row to go
C2_FailedWithRowsLeft ==
    /\ Called
    /\ i <= Len(rows)
    /\ \E k \in 1..Len(ev) : ev[k].op = "GET" /\ ev[k].res = "not_pdf"
    /\ LastRec.status = "error"

\* the latest record before position n of the index that is about the file name
EarlierRecs(n, name) ==
    {k \in 2..(n - 1) : pdf_name(index.rows[k].product_href) = name}

\* C3: when process_one takes a row whose PDF file exists, without force, the
\* page fetched and a COA link found, it sends no request to the COA URL,
\* leaves the files as they are, and appends a record with status ok and the
\* hash and the size of the existing file; the hash is the one of the latest
\* record about that file, when that record has one.
C3_ExistingFileKept ==
    [][ (/\ IsCall
         /\ fs[pdf_name(rows[i].url)] # Absent
         /\ ~force
         /\ call' # NetFail
         /\ find_coa_href(call'.body.anchors, rows[i].url) # None)
        =>
        LET url == rows[i].url
            name == pdf_name(url)
            rec == index'.rows[Len(index'.rows)]
            before == EarlierRecs(Len(index.rows) + 1, name)
        IN /\ ev' = <<EvGet(url, "ok"), EvAppend("ok")>>
           /\ fs' = fs
           /\ rec.status = "ok"
           /\ rec.error = ""
           /\ rec.local_path = name
           /\ rec.sha256 = sha256_file(fs[name])
           /\ rec.size_kb = size_kb_of(fs[name])
           /\ before # {} =>
                LET last == CHOOSE k \in before : \A k2 \in before : k2 <= k
                IN index.rows[last].status = "ok" => index.rows[last].sha256 = rec.sha256
      ]_vars

\* a later run has taken a row whose file an earlier run downloaded, and has
\* recorded the hash the earlier run recorded
C3_RerunSkipped ==
    /\ Called
    /\ ~force
    /\ runStart >= 1
    /\ Ops(ev) = <<"GET", "append">>
    /\ LastRec.status = "ok"
    /\ fs[pdf_name(rows[i - 1].url)] # Absent
    /\ \E k \in 2..(runStart + 1) :
         /\ index.rows[k].status = "ok"
         /\ index.rows[k].sha256 = LastRec.sha256

\* no anchor of the page matches a tier of the COA discovery
NoTierMatches(anchors) ==
    \A k \in 1..Len(anchors) : ~TierA(anchors[k]) /\ ~TierB(anchors[k]) /\ ~TierC(anchors[k])

\* C8: when the page is fetched and no tier matches, process_one appends a
\* record with status no_coa and empty coa_url, local_path, sha256 and error,
\* requests nothing but the page and writes no file.
C8_NoCoaIsNotAnError ==
    [][ (/\ IsCall
         /\ call' # NetFail
         /\ NoTierMatches(call'.body.anchors))
        =>
        LET rec == index'.rows[Len(index'.rows)]
        IN /\ rec.status = "no_coa"
           /\ rec.coa_url = <<>>
           /\ rec.local_path = <<>>
           /\ rec.sha256 = <<>>
           /\ rec.error = ""
           /\ ev' = <<EvGet(rows[i].url, "ok"), EvAppend("no_coa")>>
           /\ fs' = fs
           /\ Len(index'.rows) = Len(index.rows) + 1
      ]_vars

\* a page without a COA link has been processed
C8_NoCoaRecorded ==
    /\ Called
    /\ call # NetFail
    /\ NoTierMatches(call.body.anchors)
    /\ LastRec.status = "no_coa"
    /\ LastRec.product_href = rows[i - 1].url

\* C9: every operation leaves the index with its earlier content as a prefix;
\* the header is written only when the index file is absent, so the index
\* has one header row and it is the first row.
C9_IndexAppendOnly ==
    /\ [][ /\ index.exists => index'.exists /\ IsPrefix(index.rows, index'.rows)
           /\ (\E k \in (Len(index.rows) + 1)..Len(index'.rows) : index'.rows[k] = HEADER)
                => ~index.exists
         ]_vars
    /\ [](index.exists =>
            /\ index.rows[1] = HEADER
            /\ \A k \in 2..Len(index.rows) : index.rows[k] # HEADER)
    /\ [](~index.exists => index.rows = <<>>)

\* a run that found the index of an earlier run has appended to it
C9_SecondRunAppended ==
    /\ Called
    /\ runStart >= 1
    /\ Len(index.rows) > runStart + 1
    /\ index.rows[1] = HEADER

\* C10: for every row, a sleep occurs if and only if the PDF was fetched from
\* the COA URL and written to disk; the sleep is after the write and before
\* the append of the row's record; there is none for a row that is skipped,
\* that ends in no_coa, or whose page or PDF fetch fails.
C10_SleepIffDownloaded ==
    Called =>
        LET at(op) == {k \in 1..Len(ev) : ev[k].op = op}
        IN /\ at("sleep") # {} <=> at("write") # {}
           /\ \A s \in at("sleep") :
                /\ \E w \in at("write") : w < s
                /\ \A a \in at("append") : s < a
           /\ Cardinality(at("sleep")) <= 1
           /\ (LastRec.status = "no_coa" \/ FetchFailed) => at("sleep") = {}
           /\ Cardinality(at("GET")) = 1 => at("sleep") = {}

\* what process_one does keep to: the same, in a run whose sleep returns
SleepIffDownloadedWhenSleepReturns ==
    Called /\ sleep_ok =>
        LET at(op) == {k \in 1..Len(ev) : ev[k].op = op}
        IN /\ at("sleep") # {} <=> at("write") # {}
           /\ \A s \in at("sleep") :
                /\ \E w \in at("write") : w < s
                /\ \A a \in at("append") : s < a
           /\ (LastRec.status = "no_coa" \/ FetchFailed) => at("sleep") = {}
           /\ Cardinality(at("GET")) = 1 => at("sleep") = {}

\* a PDF was fetched and written, no sleep followed, and the row is an error
C10_WrittenWithoutSleep ==
    /\ Called
    /\ Ops(ev) = <<"GET", "GET", "write", "append">>
    /\ LastRec.status = "error"
    /\ fs[pdf_name(rows[i - 1].url)] # Absent

====
